---- MODULE Spec2Model ----
(***************************************************************************)
(* The Dash callback update_map of sf_rental_map (src/app.py): address     *)
(* resolution over the rental dataset rent_df, aggregation of the resolved *)
(* block and the (figure, status text) pair handed back to the page.       *)
(*                                                                         *)
(* A Python str is a sequence of one-character strings; None is the record *)
(* NoneStr.  A DataFrame is a sequence of rows; a selection of rows is the *)
(* sequence of their positions in rent_df, in dataset order.               *)
(***************************************************************************)
EXTENDS Integers, Sequences, FiniteSets, TLC

VARIABLES rent_df, user_input, search_query, depth, pc, frame, result

vars == <<rent_df, user_input, search_query, depth, pc, frame, result>>

\* Largest number of rows of the dataset.
MaxRows == 2

----------------------------------------------------------------------------
(* Characters and strings *)

\* The characters of the model, in code-point order (str comparison).
AsciiOrder ==
  <<" ", "(", ".", "0", "1", "2", "3", "5", "9", "L", "O", "S",
    "a", "i", "k", "l", "n", "o", "r", "s", "t">>

Ord(c) == CHOOSE i \in 1..Len(AsciiOrder) : AsciiOrder[i] = c

DigitChars == <<"0", "1", "2", "3", "4", "5", "6", "7", "8", "9">>

IsDigit(c) == \E i \in 1..Len(DigitChars) : DigitChars[i] = c

DigitVal(c) == (CHOOSE i \in 1..Len(DigitChars) : DigitChars[i] = c) - 1

\* str.strip() and \s: the only whitespace character of the model.
IsSpace(c) == c = " "

\* str.lower() / re.IGNORECASE folding of one character.
Lower(c) ==
  CASE c = "L" -> "l"
    [] c = "O" -> "o"
    [] c = "S" -> "s"
    [] OTHER -> c

NoneStr == [some |-> FALSE, str |-> <<>>]

Str(s) == [some |-> TRUE, str |-> s]

\* A local variable: value is computed once and In is applied to it.
Let(value, In(_)) == CHOOSE r \in {In(v) : v \in {value}} : TRUE

\* Length of the run of digits of s that starts at position from.
DigitRun(s, from) ==
  CHOOSE k \in 0..(Len(s) - from + 1) :
    /\ \A i \in from..(from + k - 1) : IsDigit(s[i])
    /\ (from + k > Len(s) \/ ~IsDigit(s[from + k]))

\* Length of the run of whitespace of s that starts at position from.
SpaceRun(s, from) ==
  CHOOSE k \in 0..(Len(s) - from + 1) :
    /\ \A i \in from..(from + k - 1) : IsSpace(s[i])
    /\ (from + k > Len(s) \/ ~IsSpace(s[from + k]))

\* Length of the run of whitespace that ends s.
TrailingSpaces(s) ==
  CHOOSE k \in 0..Len(s) :
    /\ \A i \in (Len(s) - k + 1)..Len(s) : IsSpace(s[i])
    /\ (k = Len(s) \/ ~IsSpace(s[Len(s) - k]))

\* str.strip()
Strip(s) ==
  LET l == SpaceRun(s, 1)
  IN  IF l = Len(s) THEN <<>> ELSE SubSeq(s, l + 1, Len(s) - TrailingSpaces(s))

\* int(s) of a string of digits.
RECURSIVE ToInt(_)
ToInt(s) ==
  IF s = <<>> THEN 0
  ELSE 10 * ToInt(SubSeq(s, 1, Len(s) - 1)) + DigitVal(s[Len(s)])

\* Python's < on str: lexicographic by code point.
RECURSIVE StrLess(_, _)
StrLess(a, b) ==
  IF a = <<>> THEN b # <<>>
  ELSE IF b = <<>> THEN FALSE
  ELSE IF a[1] = b[1] THEN StrLess(Tail(a), Tail(b))
  ELSE Ord(a[1]) < Ord(b[1])

\* A default address that was written without its block number.
DefaultWithoutNumber == <<"L", "a", "r", "k", "i", "n", " ", "S", "t">>

\* Line 13: DEFAULT_SEARCH_QUERY = "100 Larkin St"
DEFAULT_SEARCH_QUERY ==
  <<"1", "0", "0", " ", "L", "a", "r", "k", "i", "n", " ", "S", "t">>

----------------------------------------------------------------------------
(* Parsing the query *)

\* The test of line 39 without its strip(): `not search_query` alone.
IsBlankNoneOnly(q) == ~q.some \/ q.str = <<>>

\* Line 39: `not search_query or search_query.strip() == ""`
IsBlank(q) == ~q.some \/ q.str = <<>> \/ Strip(q.str) = <<>>

\* Lines 39-43: the default replaces a blank input, then strip().
Normalize(q) == Strip(IF IsBlank(q) THEN DEFAULT_SEARCH_QUERY ELSE q.str)

\* re.match(r'(\d+)?\s*(.+)', s).  The digit group is greedy but gives back
\* its last digit when nothing else is left for (.+); \s* likewise.
ReMatch(s) ==
  LET k    == DigitRun(s, 1)
      nd   == IF k < Len(s) THEN k ELSE k - 1
      rest == SubSeq(s, nd + 1, Len(s))
      w    == SpaceRun(rest, 1)
      ns   == IF w < Len(rest) THEN w ELSE w - 1
  IN  IF Len(s) = 0
      THEN [matched |-> FALSE, group1 |-> NoneStr, group2 |-> <<>>]
      ELSE [matched |-> TRUE,
            group1  |-> IF nd = 0 THEN NoneStr ELSE Str(SubSeq(s, 1, nd)),
            group2  |-> SubSeq(rest, ns + 1, Len(rest))]

\* The number taken as it is, not floored to its hundred.
FloorNone(n) == n

\* Lines 71, 75: int(...) // 100 * 100
Floor100(n) == (n \div 100) * 100

----------------------------------------------------------------------------
(* Candidate selection *)

\* re.compile(pat): "(" opens a group that nothing in the alphabet closes.
ValidPattern(pat) == \A i \in 1..Len(pat) : pat[i] # "("

\* Series.str.contains(pat, na=False, case=False): pat is a regular
\* expression (regex=True is the default); "." matches any character.
StrContains(pat, text) ==
  \E i \in 0..(Len(text) - Len(pat)) :
    \A j \in 1..Len(pat) : pat[j] = "." \/ Lower(pat[j]) = Lower(text[i + j])

\* Length of the common run of a and b that starts at a[i], b[j] and stays
\* within a[..ahi], b[..bhi].
RECURSIVE Ext(_, _, _, _, _, _)
Ext(a, b, i, j, ahi, bhi) ==
  IF i > ahi \/ j > bhi \/ a[i] # b[j] THEN 0
  ELSE 1 + Ext(a, b, i + 1, j + 1, ahi, bhi)

\* SequenceMatcher.find_longest_match(alo, ahi, blo, bhi) without junk:
\* the longest block, the earliest in a, then the earliest in b.
LongestMatch(a, b, alo, ahi, blo, bhi) ==
  Let({<<Ext(a, b, p[1], p[2], ahi, bhi), p[1], p[2]>> :
         p \in {c \in (alo..ahi) \X (blo..bhi) : a[c[1]] = b[c[2]]}},
      LAMBDA blocks :
        IF blocks = {} THEN [i |-> alo, j |-> blo, k |-> 0]
        ELSE Let(CHOOSE m \in blocks :
                   \A o \in blocks :
                     \/ m[1] > o[1]
                     \/ /\ m[1] = o[1]
                        /\ (m[2] < o[2] \/ (m[2] = o[2] /\ m[3] <= o[3])),
                 LAMBDA m : [i |-> m[2], j |-> m[3], k |-> m[1]]))

\* The ranges get_matching_blocks queues once block m of range r is found:
\* what is left of it, and what is right of it.
LeftAndRight(r, m) ==
  (IF r.alo < m.i /\ r.blo < m.j
   THEN <<[alo |-> r.alo, ahi |-> m.i - 1, blo |-> r.blo, bhi |-> m.j - 1]>>
   ELSE <<>>)
  \o
  (IF m.i + m.k <= r.ahi /\ m.j + m.k <= r.bhi
   THEN <<[alo |-> m.i + m.k, ahi |-> r.ahi, blo |-> m.j + m.k, bhi |-> r.bhi]>>
   ELSE <<>>)

\* Sum of the sizes of SequenceMatcher.get_matching_blocks(): the longest
\* block of the first range queued is counted, and the ranges to its left
\* and to its right are queued.
RECURSIVE Matches(_, _, _)
Matches(a, b, queue) ==
  IF queue = <<>> THEN 0
  ELSE Let(LongestMatch(a, b, queue[1].alo, queue[1].ahi,
                        queue[1].blo, queue[1].bhi),
           LAMBDA m :
             IF m.k = 0 THEN Matches(a, b, Tail(queue))
             ELSE Let(Tail(queue) \o LeftAndRight(queue[1], m),
                      LAMBDA rest : m.k + Matches(a, b, rest)))

\* SequenceMatcher(None, a, b).ratio() = 2.0 * M / T, kept as the pair.
Ratio(a, b) ==
  [m2 |-> 2 * Matches(a, b, <<[alo |-> 1, ahi |-> Len(a),
                                blo |-> 1, bhi |-> Len(b)]>>),
   t  |-> Len(a) + Len(b)]

\* ratio >= 0.7 (cutoff); 2M/T and 0.7 are compared exactly.
AtLeastCutoff(r) == 10 * r.m2 >= 7 * r.t

\* (score, x) > (score', x') on the tuples heapq.nlargest compares.
ScoredGreater(ra, a, rb, b) ==
  \/ ra.m2 * rb.t > rb.m2 * ra.t
  \/ (ra.m2 * rb.t = rb.m2 * ra.t /\ StrLess(b, a))

\* SequenceMatcher.real_quick_ratio(): 2.0 * min(la, lb) / (la + lb), the
\* bound get_close_matches tests before it computes ratio().
RealQuickRatio(a, b) ==
  [m2 |-> 2 * (IF Len(a) <= Len(b) THEN Len(a) ELSE Len(b)),
   t  |-> Len(a) + Len(b)]

\* difflib.get_close_matches(word, possibilities, n=1, cutoff=0.7): the
\* possibility of the greatest (ratio, string) among those at the cutoff.
\* (quick_ratio(), tested between the two, bounds ratio() from above and
\* rejects nothing that ratio() accepts.)
GetCloseMatches(word, possibilities) ==
  Let({s \in {<<x, Ratio(x, word)>> :
                x \in {y \in possibilities :
                         AtLeastCutoff(RealQuickRatio(y, word))}} :
         AtLeastCutoff(s[2])},
      LAMBDA close :
        IF close = {} THEN NoneStr
        ELSE Str((CHOOSE s \in close :
                    \A r \in close \ {s} :
                      ScoredGreater(s[2], s[1], r[2], r[1]))[1]))

----------------------------------------------------------------------------
(* The dataset *)

NaN == [nan |-> TRUE, val |-> 0]

Num(v) == [nan |-> FALSE, val |-> v]

\* Block addresses of the dataset, in the format of DEFAULT_SEARCH_QUERY.
BlockAddress(block) ==
  (CASE block = 100 -> <<"1">> [] block = 200 -> <<"2">> [] OTHER -> <<"3">>)
    \o <<"0", "0", " ", "L", "a", "r", "k", "i", "n", " ", "S", "t">>

Blocks == {100, 200, 300}

\* The rows a dataset is made of: a complete row of each block, and the same
\* row with an unusable block_num, without latitude, without longitude.
RowVariants == {"complete", "bad_block_num", "no_latitude", "no_longitude"}

Row(block, variant) ==
  [block_address        |-> BlockAddress(block),
   block_num            |-> IF variant = "bad_block_num" THEN NaN ELSE Num(block),
   cleaned_monthly_rent |-> 1500 + 5 * block,
   unit_count           |-> block \div 100,
   latitude             |-> IF variant = "no_latitude" THEN NaN ELSE Num(37),
   longitude            |-> IF variant = "no_longitude" THEN NaN ELSE Num(0 - 122)]

Rows == {Row(b, v) : b \in Blocks, v \in RowVariants}

Datasets == UNION {[1..n -> Rows] : n \in 0..MaxRows}

\* The positions of idx, in order, whose row satisfies Keep.
Filter(idx, Keep(_)) == SelectSeq(idx, Keep)

AllRows(df) == [i \in 1..Len(df) |-> i]

Range(s) == {s[i] : i \in 1..Len(s)}

----------------------------------------------------------------------------
(* One invocation of update_map *)

INVALID_STREET == "Invalid input. Please enter a valid street name."

NO_VALID_DATA == "No valid data found. Please check the address format."

DEFAULT_TITLE == "Default Search: 100 Larkin St"

SUCCESS_TITLE == "Clustered Data for the Address"

NoResult == [outcome |-> "NONE", status |-> "", markers |-> {}, title |-> ""]

\* update_map_with_message(search_query, error_message): a figure without
\* data under the fixed title, and the message.
update_map_with_message(error_message) ==
  [outcome |-> "ERROR", status |-> error_message, markers |-> {},
   title |-> DEFAULT_TITLE]

\* An exception leaves update_map: the callback hands back nothing.
Raised(exception) ==
  [outcome |-> "EXCEPTION", status |-> exception, markers |-> {}, title |-> ""]

\* The end of the function body is reached without a return statement.
ReturnsNone ==
  [outcome |-> "NO_RETURN", status |-> "", markers |-> {}, title |-> ""]

RECURSIVE Sum(_)
Sum(s) == IF s = <<>> THEN 0 ELSE Head(s) + Sum(Tail(s))

\* groupby("block_address").agg(...): one summary row for each address of
\* the rows; a mean is kept as its sum and the number of rows.
Aggregate(df, idx) ==
  {LET grp == Filter(idx, LAMBDA i : df[i].block_address = a)
       n   == Len(grp)
   IN  [block_address |-> a,
        rows          |-> n,
        rent_sum      |-> Sum([k \in 1..n |-> df[grp[k]].cleaned_monthly_rent]),
        total_units   |-> Sum([k \in 1..n |-> df[grp[k]].unit_count]),
        lat_sum       |-> Sum([k \in 1..n |-> df[grp[k]].latitude.val]),
        lon_sum       |-> Sum([k \in 1..n |-> df[grp[k]].longitude.val])]
   : a \in {df[i].block_address : i \in Range(idx)}}

\* px.scatter_mapbox(aggregated_data, ...): one marker for each summary row.
SuccessFigure(summary) ==
  [outcome |-> "SUCCESS", status |-> "", markers |-> summary,
   title |-> SUCCESS_TITLE]

\* int(re.search(r'(\d+)', x).group(0)): the first run of digits of x.
HasDigits(x) == \E i \in 1..Len(x) : IsDigit(x[i])

FirstDigits(x) ==
  LET i == CHOOSE p \in 1..Len(x) :
             IsDigit(x[p]) /\ \A q \in 1..(p - 1) : ~IsDigit(x[q])
  IN  SubSeq(x, i, i + DigitRun(x, i) - 1)

\* Lines 74-79: the distance of a row to the block asked for.
Distance(row, input_block) ==
  LET ref == Floor100(ToInt(FirstDigits(row.block_address)))
  IN  IF ref >= input_block THEN ref - input_block ELSE input_block - ref

\* The last row, in order, of the least distance (keep="last").
ClosestLast(df, idx, input_block) ==
  CHOOSE i \in Range(idx) :
    \A j \in Range(idx) :
      \/ Distance(df[i], input_block) < Distance(df[j], input_block)
      \/ (Distance(df[i], input_block) = Distance(df[j], input_block) /\ i >= j)

\* Line 86: nsmallest(1, "distance") keeps the first row, in order, of the
\* least distance.
Closest(df, idx, input_block) ==
  CHOOSE i \in Range(idx) :
    \A j \in Range(idx) :
      \/ Distance(df[i], input_block) < Distance(df[j], input_block)
      \/ (Distance(df[i], input_block) = Distance(df[j], input_block) /\ i <= j)

\* Line 59: the rows whose address matches the street.
Contained(df, input_street) ==
  Filter(AllRows(df), LAMBDA i : StrContains(input_street, df[i].block_address))

\* Lines 61-64: the rows of the closest address, when get_close_matches
\* finds one among the addresses of the rows.
Narrow(df, contained, input_street) ==
  IF contained = <<>> THEN contained
  ELSE Let(GetCloseMatches(input_street,
                           {df[i].block_address : i \in Range(contained)}),
           LAMBDA best_match :
             IF best_match.some
             THEN Filter(contained,
                         LAMBDA i : df[i].block_address = best_match.str)
             ELSE contained)

\* Lines 66-67: to_numeric(errors='coerce') and dropna on block_num.
DropBadBlockNum(df, idx) == Filter(idx, LAMBDA i : ~df[i].block_num.nan)

\* The test of line 101 without its longitude clause.
CoordinatesMissingLatOnly(df, idx) ==
  idx = <<>> \/ \E i \in Range(idx) : df[i].latitude.nan

\* Line 101: no row of the closest address, or a missing coordinate.
CoordinatesMissing(df, idx) ==
  \/ idx = <<>>
  \/ \E i \in Range(idx) : df[i].latitude.nan
  \/ \E i \in Range(idx) : df[i].longitude.nan

\* The locals of an invocation that has not got to them.
NoFrame ==
  [cleaned |-> <<>>, input_number |-> NoneStr, input_street |-> <<>>,
   contained |-> <<>>, narrowed |-> <<>>, usable |-> <<>>,
   closest_block_address |-> NoneStr, resolved |-> <<>>,
   next |-> "go on", result |-> NoResult]

\* Lines 38-54: the query is cleaned and split into number and street.
Parse(q) ==
  Let(Normalize(q), LAMBDA cleaned :
  Let(ReMatch(cleaned), LAMBDA address_match :
    IF ~address_match.matched
    THEN [NoFrame EXCEPT !.cleaned = cleaned,
                         !.next = "return", !.result = ReturnsNone]
    ELSE Let(Strip(address_match.group2), LAMBDA input_street :
           [NoFrame EXCEPT
              !.cleaned = cleaned,
              !.input_number = address_match.group1,
              !.input_street = input_street,
              !.next = IF input_street = <<>> THEN "return" ELSE "go on",
              !.result = IF input_street = <<>>
                         THEN update_map_with_message(INVALID_STREET)
                         ELSE NoResult])))

\* Lines 59-67: the candidate rows.
Select(f, df) ==
  IF ~ValidPattern(f.input_street)
  THEN [f EXCEPT !.next = "return", !.result = Raised("re.error")]
  ELSE Let(Contained(df, f.input_street), LAMBDA contained :
       Let(Narrow(df, contained, f.input_street), LAMBDA narrowed :
         [f EXCEPT !.contained = contained,
                   !.narrowed = narrowed,
                   !.usable = DropBadBlockNum(df, narrowed)]))

\* Lines 70-98: the closest address of the candidate rows and its rows; or
\* the call of update_map with the default query.  Without candidate rows
\* there is no closest row: nsmallest refuses the empty object column
\* (TypeError) or iloc[0] finds nothing (IndexError), named NoClosestRow.
Resolve(f, df) ==
  IF ~f.input_number.some THEN [f EXCEPT !.next = "reenter"]
  ELSE IF \E i \in Range(f.usable) : ~HasDigits(df[i].block_address)
  THEN [f EXCEPT !.next = "return", !.result = Raised("AttributeError")]
  ELSE IF f.usable = <<>>
  THEN [f EXCEPT !.next = "return", !.result = Raised("NoClosestRow")]
  ELSE Let(df[Closest(df, f.usable,
                      Floor100(ToInt(f.input_number.str)))].block_address,
           LAMBDA closest_block_address :
             [f EXCEPT
                !.closest_block_address = Str(closest_block_address),
                !.resolved =
                  Filter(f.usable,
                         LAMBDA i : df[i].block_address = closest_block_address)])

\* Lines 101-172: the error figure, or the figure of the summary.
Present(f, df) ==
  [f EXCEPT
     !.next = "return",
     !.result = IF CoordinatesMissing(df, f.resolved)
                THEN update_map_with_message(NO_VALID_DATA)
                ELSE SuccessFigure(Aggregate(df, f.resolved))]

\* A step of the body is taken unless the function has been left.
Then(f, df, Step(_, _)) == IF f.next = "go on" THEN Step(f, df) ELSE f

\* Lines 34-172: the body of update_map for the argument q on the dataset
\* df: its locals, whether it returns or calls itself, and what it returns.
Body(q, df) ==
  Let(Parse(q), LAMBDA f1 :
  Let(Then(f1, df, Select), LAMBDA f2 :
  Let(Then(f2, df, Resolve), LAMBDA f3 :
    Then(f3, df, Present))))

----------------------------------------------------------------------------
(* The inputs of the page *)

\* The leading numbers typed; <<>> is none.
Numbers ==
  {<<>>, <<"5">>, <<"1", "0", "0">>, <<"1", "2", "0">>, <<"1", "9", "9">>,
   <<"2", "0", "0">>}

\* The street fragments typed; <<>> is none.
Streets ==
  {<<>>,
   <<"L", "a", "r", "k", "i", "n">>,
   <<"L", "a", "r", "k", "i", "n", " ", "S", "t">>,
   <<"l", "a", "r", "k", "i", "n", " ", "s", "t">>,
   <<"L", ".", "r", "k", "i", "n">>,
   <<"(">>,
   <<"O", "a", "k">>}

\* A number, a blank when both parts are typed, a street.
Compose(number, street) ==
  number \o (IF number # <<>> /\ street # <<>> THEN <<" ">> ELSE <<>>) \o street

Typed == {Compose(n, s) : n \in Numbers, s \in Streets}

\* The texts also typed with a blank before and after.
Padded ==
  {<<" ">> \o Compose(n, s) \o <<" ">> :
     n \in {<<>>, <<"1", "2", "0">>},
     s \in {<<>>, <<"L", "a", "r", "k", "i", "n">>}}

\* What block_search can hold: None, or text.
Queries == {NoneStr} \cup {Str(t) : t \in Typed \cup Padded}

----------------------------------------------------------------------------
(* The callback *)

Init ==
  /\ rent_df \in Datasets
  /\ user_input = NoneStr
  /\ search_query = NoneStr
  /\ depth = 0
  /\ pc = "idle"
  /\ frame = NoFrame
  /\ result = NoResult

\* The debounced input fires the callback with the text of block_search.
InputEvent(q) ==
  /\ pc = "idle"
  /\ user_input' = q
  /\ search_query' = q
  /\ depth' = 0
  /\ pc' = "running"
  /\ frame' = NoFrame
  /\ result' = NoResult
  /\ UNCHANGED rent_df

\* update_map without the call of line 93.
ReentersNever(q) == FALSE

\* Line 93 is reached: the query parses to a street that compiles as a
\* pattern and to no number (lines 46-51, 59, 70).
Reenters(q) ==
  LET m == ReMatch(Normalize(q))
  IN  /\ m.matched
      /\ Strip(m.group2) # <<>>
      /\ ValidPattern(Strip(m.group2))
      /\ ~m.group1.some

\* update_map runs to one of its return statements, or raises.
UpdateMapReturn ==
  /\ pc = "running"
  /\ ~Reenters(search_query)
  /\ \E f \in {Body(search_query, rent_df)} :
       /\ frame' = f
       /\ result' = f.result
  /\ pc' = "done"
  /\ UNCHANGED <<rent_df, user_input, search_query, depth>>

\* Line 93: update_map calls itself with the default query.
UpdateMapReenter ==
  /\ pc = "running"
  /\ Reenters(search_query)
  /\ frame' = Body(search_query, rent_df)
  /\ search_query' = Str(DEFAULT_SEARCH_QUERY)
  /\ depth' = depth + 1
  /\ UNCHANGED <<rent_df, user_input, pc, result>>

\* The figure and the status text go to the page (or the exception to the
\* log); the callback keeps nothing from one event to the next.
Respond ==
  /\ pc = "done"
  /\ pc' = "idle"
  /\ user_input' = NoneStr
  /\ search_query' = NoneStr
  /\ depth' = 0
  /\ frame' = NoFrame
  /\ result' = NoResult
  /\ UNCHANGED rent_df

Next ==
  \/ \E q \in Queries : InputEvent(q)
  \/ UpdateMapReturn
  \/ UpdateMapReenter
  \/ Respond

Spec == Init /\ [][Next]_vars

----------------------------------------------------------------------------
(* What the properties speak of *)

\* The text of the input event, trimmed; empty for None.
Asked == IF user_input.some THEN Strip(user_input.str) ELSE <<>>

\* The input is absent, empty or made of whitespace only.
AskedBlank == ~user_input.some \/ \A i \in 1..Len(user_input.str) : user_input.str[i] = " "

\* The street fragment of a text: what follows the leading integer and the
\* whitespace after it.
StreetOf(text) == Strip(SubSeq(text, DigitRun(text, 1) + 1, Len(text)))

\* The text has a street fragment and no leading integer.
AskedStreetOnly == Asked # <<>> /\ ~IsDigit(Asked[1])

\* The text is a run of digits and nothing else.
AskedDigitsOnly == Asked # <<>> /\ \A i \in 1..Len(Asked) : IsDigit(Asked[i])

\* text contains fragment, letter case aside.
ContainsIgnoringCase(fragment, text) ==
  \E i \in 0..(Len(text) - Len(fragment)) :
    \A j \in 1..Len(fragment) : Lower(fragment[j]) = Lower(text[i + j])

\* The rows of the dataset whose address contains the fragment.
ContainmentMatched(fragment) ==
  SelectSeq(AllRows(rent_df),
            LAMBDA i : ContainsIgnoringCase(fragment, rent_df[i].block_address))

\* The leading integer of an address, floored to its hundred.
BlockOf(address) ==
  LET n == ToInt(SubSeq(address, 1, DigitRun(address, 1)))
  IN  n - (n % 100)

\* |floor100(leading integer of the address) - floor100(number)|
BlockDistance(address, number) ==
  LET d == BlockOf(address) - (number - (number % 100))
  IN  IF d < 0 THEN 0 - d ELSE d

Success == result.outcome = "SUCCESS" /\ Cardinality(result.markers) = 1 /\ result.status = ""

Error == result.outcome = "ERROR" /\ result.markers = {} /\ result.status # ""

----------------------------------------------------------------------------
(* Properties *)

C2_DigitsOnlyInvalidStreet ==
  (pc = "done" /\ AskedDigitsOnly) =>
    /\ result = update_map_with_message(INVALID_STREET)
    /\ frame.contained = <<>>

\* The text holds no character that a pattern reads as other than itself.
PlainText(text) == \A i \in 1..Len(text) : text[i] \notin {"(", "."}

\* C3 as stated: a query whose street fragment no address contains ends in
\* the default map with the text "No valid data found. Please check the
\* address format." (stated for the fragments of plain text).
C3_NoCandidateNoValidData ==
  (/\ pc = "done"
   /\ PlainText(Asked)
   /\ StreetOf(Asked) # <<>>
   /\ ContainmentMatched(StreetOf(Asked)) = <<>>) =>
    result = update_map_with_message(NO_VALID_DATA)

\* C4 as stated: every cycle ends in SUCCESS (one marker, empty status text)
\* or in ERROR (no marker, a status message).
C4_SuccessOrError == pc = "done" => (Success \/ Error)

\* C5: on a dataset that is not empty, an absent, empty or whitespace-only
\* input ends as DEFAULT_SEARCH_QUERY does: same locals, same resolved
\* block, same summary, same status text.
C5_BlankIsDefaultQuery ==
  (pc = "done" /\ Len(rent_df) > 0 /\ AskedBlank) =>
    \E d \in {Body(Str(DEFAULT_SEARCH_QUERY), rent_df)} :
      frame = d /\ result = d.result

\* A whitespace-only input has ended in a success map.
C5_Witness ==
  /\ pc = "done"
  /\ user_input = Str(<<" ", " ">>)
  /\ Len(rent_df) > 0
  /\ result.outcome = "SUCCESS"

\* C6: with a leading number and candidate rows left, the winning address is
\* that of the first row, in dataset order, among the rows of the least
\* distance |floor100(leading integer) - floor100(number)|.
C6_ClosestBlockWins ==
  (pc = "done" /\ frame.input_number.some /\ frame.usable # <<>>) =>
    /\ frame.closest_block_address.some
    /\ \E i \in Range(frame.usable) :
         /\ rent_df[i].block_address = frame.closest_block_address.str
         /\ \A j \in Range(frame.usable) :
              LET di == BlockDistance(rent_df[i].block_address,
                                      ToInt(frame.input_number.str))
                  dj == BlockDistance(rent_df[j].block_address,
                                      ToInt(frame.input_number.str))
              IN  di < dj \/ (di = dj /\ i <= j)

\* Two addresses tie at the least distance and the one that comes first in
\* the dataset, the 300 block, has won over the 100 block.
C6_Witness ==
  /\ pc = "done"
  /\ frame.input_number.some
  /\ ToInt(frame.input_number.str) = 200
  /\ Len(frame.usable) = 2
  /\ rent_df[frame.usable[1]].block_address = BlockAddress(300)
  /\ rent_df[frame.usable[2]].block_address = BlockAddress(100)
  /\ frame.closest_block_address = Str(BlockAddress(300))

\* The least number typed that lies in the hundred-block of number.
SameBlockNumber(number) ==
  CHOOSE n \in Numbers \ {<<>>} :
    /\ ToInt(n) \div 100 = ToInt(number) \div 100
    /\ \A o \in Numbers \ {<<>>} :
         ToInt(o) \div 100 = ToInt(number) \div 100 => ToInt(n) <= ToInt(o)

\* C7: two queries of one street fragment whose numbers lie in the same
\* hundred-block resolve to the same block and end in the same outcome
\* (each query ends as the least number of its hundred-block does).
C7_SameHundredBlockSameOutcome ==
  (/\ pc = "done"
   /\ frame.input_number.some
   /\ frame.input_number.str \in Numbers) =>
    \E o \in {Body(Str(Compose(SameBlockNumber(frame.input_number.str),
                               frame.input_street)), rent_df)} :
      /\ o.input_street = frame.input_street
      /\ o.closest_block_address = frame.closest_block_address
      /\ o.resolved = frame.resolved
      /\ o.result = result

\* 199 has resolved to the 100 block although the 200 block is a candidate.
C7_Witness ==
  /\ pc = "done"
  /\ frame.input_number = Str(<<"1", "9", "9">>)
  /\ \E i \in Range(frame.usable) : rent_df[i].block_address = BlockAddress(200)
  /\ frame.closest_block_address = Str(BlockAddress(100))
  /\ result.outcome = "SUCCESS"

\* The rows of the winning address among the candidate rows.
RowsOfWinner ==
  SelectSeq(frame.usable,
            LAMBDA i : rent_df[i].block_address = frame.closest_block_address.str)

C8_WitnessMissingLongitude ==
  /\ pc = "done"
  /\ frame.closest_block_address.some
  /\ \E i \in Range(RowsOfWinner) :
       rent_df[i].longitude.nan /\ ~rent_df[i].latitude.nan
  /\ result.outcome = "ERROR"

\* The greatest similarity of the fragment to an address of the rows is at
\* least 0.7, and address has it.
HighestScoring(fragment, rows, address) ==
  /\ address \in {rent_df[i].block_address : i \in Range(rows)}
  /\ AtLeastCutoff(Ratio(address, fragment))
  /\ \A i \in Range(rows) :
       LET r == Ratio(address, fragment)
           o == Ratio(rent_df[i].block_address, fragment)
       IN  r.m2 * o.t >= o.m2 * r.t

\* C9 as stated: narrowing keeps the containment-matched rows of the single
\* highest-scoring address when its score is at least 0.7, and all of them
\* otherwise; every row kept has an address that contains the fragment.
C9_NarrowingKeepsContained ==
  (frame.input_street # <<>> /\ ValidPattern(frame.input_street)) =>
    LET matched == ContainmentMatched(frame.input_street)
        best    == {a \in {rent_df[i].block_address : i \in Range(matched)} :
                      HighestScoring(frame.input_street, matched, a)}
    IN  /\ \A i \in Range(frame.narrowed) :
             ContainsIgnoringCase(frame.input_street, rent_df[i].block_address)
        /\ IF best = {} THEN frame.narrowed = matched
           ELSE \E a \in best :
                  frame.narrowed =
                    SelectSeq(matched, LAMBDA i : rent_df[i].block_address = a)

\* The part of C9 that the code keeps: narrowing keeps the rows selected at
\* line 59 of the single highest-scoring address when its score is at least
\* 0.7, and all of them otherwise.
NarrowingShrinksSelected ==
  (frame.input_street # <<>> /\ ValidPattern(frame.input_street)) =>
  LET best == {a \in {rent_df[i].block_address : i \in Range(frame.contained)} :
                 HighestScoring(frame.input_street, frame.contained, a)}
  IN  IF best = {} THEN frame.narrowed = frame.contained
      ELSE \E a \in best :
             frame.narrowed =
               SelectSeq(frame.contained, LAMBDA i : rent_df[i].block_address = a)

\* C10: update_map calls itself at most once for an input event: it does so
\* only for a query without leading number, and the query of the second
\* call, DEFAULT_SEARCH_QUERY, has one, so that the second call returns.
C10_ReentersAtMostOnce ==
  /\ depth <= 1
  /\ depth = 1 =>
       /\ ~Parse(user_input).input_number.some
       /\ search_query = Str(DEFAULT_SEARCH_QUERY)
       /\ Parse(search_query).input_number.some
       /\ ~Reenters(search_query)

\* update_map is running its second call.
C10_Witness == pc = "running" /\ depth = 1

\* The locals kept of a call say how the call was left.
FrameAgreesWithControl ==
  /\ pc = "done" => frame.next = "return"
  /\ (pc = "running" /\ depth = 1) => frame.next = "reenter"

====
